---- MODULE Spec2Model ----
(***************************************************************************)
(* Model of server.ts: the video-asset manager's HTTP handlers (upload,    *)
(* delete, rename, user management) over an S3-compatible bucket and the   *)
(* SQLite tables users, video_metadata and upload_history.                 *)
(*                                                                         *)
(* Strings are sequences of one-character strings.  Sizes are counted in   *)
(* MiB.  An async handler is cut at its awaits: the code up to an          *)
(* r2Client.send is one step, the bucket's processing of the command is    *)
(* one step, and the continuation after the await is one step.             *)
(***************************************************************************)
EXTENDS Bags, FiniteSets, Integers, Naturals, Sequences, TLC

(***************************************************************************)
(* Bounds of the model.                                                    *)
(***************************************************************************)
MaxSlots == 2        \* requests that can be in flight together
MaxStarted == 2      \* requests started in one behaviour
MaxNow == 2          \* last clock value
MsPerMonth == 2      \* clock values per calendar month
MaxLen == 3          \* longest string given to the string functions

(***************************************************************************)
(* Characters and strings.                                                 *)
(***************************************************************************)
LowerLetters ==
  <<"a","b","c","d","e","f","g","h","i","j","k","l","m",
    "n","o","p","q","r","s","t","u","v","w","x","y","z">>

UpperLetters ==
  <<"A","B","C","D","E","F","G","H","I","J","K","L","M",
    "N","O","P","Q","R","S","T","U","V","W","X","Y","Z">>

Digits == <<"0","1","2","3","4","5","6","7","8","9">>

Range(s) == {s[i] : i \in DOMAIN s}

\* the character class [a-zA-Z0-9.-] of the two replace() calls
AllowedChars ==
  Range(LowerLetters) \cup Range(UpperLetters) \cup Range(Digits) \cup {".", "-"}

\* a replace() that puts a space where the code puts an underscore
SanitizeToSpace(s) == [i \in DOMAIN s |-> IF s[i] \in AllowedChars THEN s[i] ELSE " "]

\* s.replace(/[^a-zA-Z0-9.-]/g, "_")
Sanitize(s) == [i \in DOMAIN s |-> IF s[i] \in AllowedChars THEN s[i] ELSE "_"]

\* String.prototype.toLowerCase, one character
LowerChar(c) ==
  IF \E i \in DOMAIN UpperLetters : UpperLetters[i] = c
  THEN LowerLetters[CHOOSE i \in DOMAIN UpperLetters : UpperLetters[i] = c]
  ELSE c

ToLowerCase(s) == [i \in DOMAIN s |-> LowerChar(s[i])]

\* String.prototype.startsWith / endsWith
StartsWith(s, p) == Len(p) <= Len(s) /\ SubSeq(s, 1, Len(p)) = p

EndsWith(s, p) == Len(p) <= Len(s) /\ SubSeq(s, Len(s) - Len(p) + 1, Len(s)) = p

\* String(n) of a non-negative integer, as the template literal formats Date.now()
RECURSIVE NatToStr(_)
NatToStr(n) ==
  IF n < 10 THEN <<Digits[n + 1]>>
  ELSE NatToStr(n \div 10) \o <<Digits[(n % 10) + 1]>>

\* path.extname (posix): the extension of the last path component, trailing
\* slashes ignored; empty when the component has no dot, when its only dot is
\* its first character, or when the component is ".."
Extname(p) ==
  LET nonSlash == {i \in DOMAIN p : p[i] # "/"}
  IN IF nonSlash = {} THEN <<>>
     ELSE
       LET end == CHOOSE i \in nonSlash : \A j \in nonSlash : j <= i
           slashes == {i \in 1..end : p[i] = "/"}
           startPart ==
             IF slashes = {} THEN 1
             ELSE 1 + CHOOSE i \in slashes : \A j \in slashes : j <= i
           dots == {i \in startPart..end : p[i] = "."}
       IN IF dots = {} THEN <<>>
          ELSE
            LET startDot == CHOOSE i \in dots : \A j \in dots : j <= i
            IN IF startDot = startPart THEN <<>>
               ELSE IF /\ \A i \in startPart..(startDot - 1) : p[i] = "."
                       /\ startDot = end
                       /\ startDot = startPart + 1
                    THEN <<>>
               ELSE SubSeq(p, startDot, end)

(***************************************************************************)
(* Program constants (sizes in MiB).                                       *)
(***************************************************************************)
\* limits.fileSize of the multer instance: 100 * 1024 * 1024 bytes
fileSizeLimit == 100

\* const limit = 10 * 1024 * 1024 * 1024 bytes
limit == 10240

\* the "videos/" key prefix
VideosPrefix == <<"v","i","d","e","o","s","/">>

\* the extensions the listing keeps
VideoExtensions ==
  { <<".","m","p","4">>, <<".","m","o","v">>, <<".","a","v","i">>,
    <<".","m","k","v">>, <<".","w","e","b","m">> }

(***************************************************************************)
(* Inputs of the requests.                                                 *)
(***************************************************************************)
\* uploads of full size that fit the monthly limit
FullUploads == limit \div fileSizeLimit

\* what is left of the limit after FullUploads uploads of full size
Remainder == limit - FullUploads * fileSizeLimit

NoFile == [present |-> FALSE, originalname |-> <<>>, size |-> 0, buffer |-> "none"]

Files ==
  { [present |-> TRUE, originalname |-> <<"a",".","m","p","4">>,
     size |-> Remainder, buffer |-> "c1"],
    [present |-> TRUE, originalname |-> <<"a","!",".","m","p","4">>,
     size |-> Remainder + 1, buffer |-> "c2"],
    [present |-> TRUE, originalname |-> <<"a",".","m","p","4">>,
     size |-> fileSizeLimit + 1, buffer |-> "c3"],
    [present |-> TRUE, originalname |-> <<"a",".","m","p","4">>,
     size |-> 3 * 1024, buffer |-> "c4"] }

\* uploaderId and uploaderName of the multipart body; "" is an absent field
Identities ==
  { [uploaderId |-> "", uploaderName |-> ""],
    [uploaderId |-> "u1", uploaderName |-> "Alice"],
    [uploaderId |-> "u2", uploaderName |-> "Bob"] }

UserIds == {"u1", "u2"}

UserNames == {"", "Bob"}

\* newName of the PATCH body; defined = FALSE is a body without the field
NewNames ==
  { [defined |-> FALSE, str |-> <<>>],
    [defined |-> TRUE, str |-> <<>>],
    [defined |-> TRUE, str |-> <<"x">>],
    [defined |-> TRUE, str |-> <<"0","-","a">>] }

\* with a second new name, for two renames of one key that are in flight together
OverlapNewNames == NewNames \cup { [defined |-> TRUE, str |-> <<"y">>] }

\* keys of DELETE and PATCH requests that name no object of the bucket
StrayKeys ==
  { <<>>, <<"o","/","a",".","m","p","4">>, VideosPrefix \o <<"z",".","m","p","4">> }

(***************************************************************************)
(* State.                                                                  *)
(***************************************************************************)
VARIABLES
  r2Config,    \* TRUE when getR2Config() returned a configuration
  bucketName,  \* TRUE when the configured bucket name is non-empty
  objects,     \* the bucket: key -> content
  users,       \* table users: id -> name
  meta,        \* table video_metadata: video_key -> uploader_id, uploader_name
  ledger,      \* table upload_history: bag of rows (size, month of timestamp)
  now,         \* the clock, Date.now()
  reqs,        \* the requests in flight and their last responses
  started,     \* requests started so far
  calc         \* one application of a string function: its input and result

vars ==
  <<r2Config, bucketName, objects, users, meta, ledger, now, reqs, started, calc>>

Slots == 1..MaxSlots

EmptyFn == <<>>

\* the calendar month of a clock value: toISOString().slice(0, 7) and
\* strftime('%Y-%m', timestamp)
MonthOf(t) == t \div MsPerMonth

\* SELECT SUM(size) FROM upload_history WHERE strftime('%Y-%m', timestamp) = ?
\* followed by usage?.total || 0
RECURSIVE SumRows(_, _)
SumRows(rows, b) ==
  IF rows = {} THEN 0
  ELSE LET r == CHOOSE x \in rows : TRUE
       IN r.size * b[r] + SumRows(rows \ {r}, b)

MonthUsage(b, month) == SumRows({r \in DOMAIN b : r.month = month}, b)

totalUsage == MonthUsage(ledger, MonthOf(now))

\* removing a key from a table or from the bucket
Without(f, k) == [x \in DOMAIN f \ {k} |-> f[x]]

\* GET /api/videos: the keys with a video extension, each with the uploader
\* name of its metadata row or "Unknown"
IsVideoKey(k) == ToLowerCase(Extname(k)) \in VideoExtensions

UploaderOf(m, k) ==
  IF k \in DOMAIN m /\ m[k].uploader_name # "" THEN m[k].uploader_name ELSE "Unknown"

Listing(objs, m) ==
  [k \in {x \in DOMAIN objs : IsVideoKey(x)} |-> UploaderOf(m, k)]

(***************************************************************************)
(* Requests.  A request record holds the handler's locals, its position,   *)
(* its response, the bucket commands and table writes it has made with     *)
(* their outcomes (calls), whether a SELECT of it has thrown (readFailed),  *)
(* the stores as they were when the request arrived (pre), and the months  *)
(* of its arrival and of its response.                                     *)
(***************************************************************************)
Snapshot ==
  [objects |-> objects, meta |-> meta, ledger |-> ledger, users |-> users]

Idle ==
  [op |-> "none", pc |-> "idle", file |-> NoFile,
   uploaderId |-> "", uploaderName |-> "",
   key |-> <<>>, newName |-> [defined |-> FALSE, str |-> <<>>], newKey |-> <<>>,
   currentMonth |-> 0, totalUsage |-> 0, doneMonth |-> 0,
   status |-> 0, respKey |-> <<>>, calls |-> <<>>,
   readFailed |-> FALSE, listed |-> EmptyFn, respList |-> EmptyFn,
   pre |-> [objects |-> EmptyFn, meta |-> EmptyFn, ledger |-> EmptyBag,
            users |-> EmptyFn]]

\* a request as it arrives
Arrived(op) ==
  [Idle EXCEPT !.op = op, !.pre = Snapshot,
               !.currentMonth = MonthOf(now), !.totalUsage = totalUsage]

Free(i) == reqs[i].pc \in {"idle", "done"}

\* a new request takes the first free slot
FirstFree(i) == Free(i) /\ \A j \in Slots : j < i => ~Free(j)

Arrive(i) == FirstFree(i) /\ started < MaxStarted

\* res.status(code).json(...) ends the request
Respond(r, code, k) ==
  [r EXCEPT !.pc = "done", !.status = code, !.respKey = k, !.doneMonth = MonthOf(now)]

Called(r, cmd, ok) == [r EXCEPT !.calls = Append(@, [cmd |-> cmd, ok |-> ok])]

\* the outcome of the call a continuation resumes from
LastOk(r) == r.calls[Len(r.calls)].ok

\* !r2Config || !bucketName
Configured == r2Config /\ bucketName

(***************************************************************************)
(* POST /api/upload                                                        *)
(***************************************************************************)
\* a multer without the size limit
TooLargeNever(f) == FALSE

\* upload.single("video") sets req.file unless the part is missing or larger
\* than limits.fileSize
TooLarge(f) == f.present /\ f.size > fileSizeLimit

\* a quota check that also refuses the upload that fills the limit exactly
QuotaExceededAtLimit(usage, size) == usage + size >= limit

\* a quota check that leaves the size of the file out
QuotaExceededBefore(usage, size) == usage > limit

\* a quota check that keeps room for a second upload of the same size
QuotaExceededReserving(usage, size) == usage + 2 * size > limit

\* a quota check that never refuses
QuotaExceededNever(usage, size) == FALSE

\* totalUsage + file.size > limit
QuotaExceeded(usage, size) == usage + size > limit

\* the key of an upload: `videos/${Date.now()}-${originalName}`
UploadKey(t, originalname) ==
  VideosPrefix \o NatToStr(t) \o <<"-">> \o Sanitize(originalname)

\* the handler gets as far as the quota SELECT
ReadsUsage(f) == ~TooLarge(f) /\ Configured /\ f.present

\* upload.single("video") and the handler up to the await of the PutObject.
\* The quota SELECT can throw (usageFails), which the catch block answers with
\* 500.  The clock is read twice, by new Date() for the month of the quota
\* check and by Date.now() for the key: dt is what it advances in between.
UploadStart(i, f, id, usageFails, dt) ==
  /\ Arrive(i)
  /\ started' = started + 1
  /\ now + dt <= MaxNow
  /\ usageFails => ReadsUsage(f)
  /\ LET r == [Arrived("upload") EXCEPT !.file = f,
                                        !.uploaderId = id.uploaderId,
                                        !.uploaderName = id.uploaderName]
         passes == /\ ReadsUsage(f) /\ ~usageFails
                   /\ ~QuotaExceeded(totalUsage, f.size)
     IN /\ dt = 0 \/ passes
        /\ now' = now + dt
        /\ reqs' = [reqs EXCEPT ![i] =
             IF TooLarge(f) THEN Respond(r, 500, <<>>)
             ELSE IF ~Configured THEN Respond(r, 500, <<>>)
             ELSE IF ~f.present THEN Respond(r, 400, <<>>)
             ELSE IF usageFails THEN Respond([r EXCEPT !.readFailed = TRUE], 500, <<>>)
             ELSE IF QuotaExceeded(totalUsage, f.size) THEN Respond(r, 400, <<>>)
             ELSE [r EXCEPT !.pc = "put", !.key = UploadKey(now + dt, f.originalname)]]
  /\ UNCHANGED <<calc, r2Config, bucketName, objects, users, meta, ledger>>

\* the bucket serves the PutObject, or the call fails
S3Put(i, ok) ==
  /\ reqs[i].pc = "put"
  /\ objects' = IF ok THEN (reqs[i].key :> reqs[i].file.buffer) @@ objects ELSE objects
  /\ reqs' = [reqs EXCEPT ![i] = [Called(@, "put", ok) EXCEPT !.pc = "afterPut"]]
  /\ UNCHANGED <<calc, r2Config, bucketName, users, meta, ledger, now, started>>

\* INSERT INTO video_metadata fails on a duplicate video_key (PRIMARY KEY) and
\* on an uploader_id that is no users.id (FOREIGN KEY)
MetaInsertViolates(k, uid) == k \in DOMAIN meta \/ uid \notin DOMAIN users

\* the metadata insert is reached when the put did not throw and
\* uploaderId && uploaderName
TriesMeta(putOk, uploaderId, uploaderName) ==
  putOk /\ uploaderId # "" /\ uploaderName # ""

\* a ledger insert that is reached although the put threw
TriesHistoryAfterFailedPut(putOk, triesMeta, metaOk) == triesMeta => metaOk

\* a ledger insert that is reached whatever failed before it
TriesHistoryAlways(putOk, triesMeta, metaOk) == TRUE

\* the ledger insert is reached when neither the put nor the metadata insert threw
TriesHistory(putOk, triesMeta, metaOk) == putOk /\ (triesMeta => metaOk)

\* an insert that replaces the rows of the table by the new row
AppendHistoryReplacing(l, size, month) == SetToBag({[size |-> size, month |-> month]})

\* INSERT INTO upload_history (size) VALUES (?), the timestamp column taking
\* CURRENT_TIMESTAMP
AppendHistory(l, size, month) == l (+) SetToBag({[size |-> size, month |-> month]})

\* the continuation after the await: metadata row, ledger row, response
UploadFinish(i, metaFails, historyFails) ==
  /\ reqs[i].pc = "afterPut"
  /\ LET r == reqs[i]
         triesMeta == TriesMeta(LastOk(r), r.uploaderId, r.uploaderName)
         metaOk == ~(metaFails \/ MetaInsertViolates(r.key, r.uploaderId))
         triesHistory == TriesHistory(LastOk(r), triesMeta, metaOk)
         r1 == IF triesMeta THEN Called(r, "insertMeta", metaOk) ELSE r
         r2 == IF triesHistory THEN Called(r1, "insertHistory", ~historyFails) ELSE r1
     IN /\ meta' = IF triesMeta /\ metaOk
                     THEN (r.key :> [uploader_id |-> r.uploaderId,
                                     uploader_name |-> r.uploaderName]) @@ meta
                     ELSE meta
        /\ ledger' = IF triesHistory /\ ~historyFails
                       THEN AppendHistory(ledger, r.file.size, MonthOf(now))
                       ELSE ledger
        /\ reqs' = [reqs EXCEPT ![i] =
             IF triesHistory /\ ~historyFails
               THEN Respond(r2, 200, r.key)
               ELSE Respond(r2, 500, <<>>)]
  /\ UNCHANGED <<calc, r2Config, bucketName, objects, users, now, started>>

(***************************************************************************)
(* DELETE /api/videos/*                                                    *)
(***************************************************************************)
\* a check that refuses only the empty key
InvalidKeyEmptyOnly(k) == k = <<>>

\* !key || !key.startsWith("videos/")
InvalidKey(k) == k = <<>> \/ ~StartsWith(k, VideosPrefix)

DeleteStart(i, k) ==
  /\ Arrive(i)
  /\ started' = started + 1
  /\ LET r == [Arrived("delete") EXCEPT !.key = k]
     IN reqs' = [reqs EXCEPT ![i] =
          IF ~Configured THEN Respond(r, 500, <<>>)
          ELSE IF InvalidKey(k) THEN Respond(r, 400, <<>>)
          ELSE [r EXCEPT !.pc = "del"]]
  /\ UNCHANGED <<calc, r2Config, bucketName, objects, users, meta, ledger, now>>

\* the bucket serves a DeleteObject (of an absent key too), or the call fails
S3Delete(i, ok) ==
  /\ reqs[i].pc = "del"
  /\ objects' = IF ok THEN Without(objects, reqs[i].key) ELSE objects
  /\ reqs' = [reqs EXCEPT ![i] = [Called(@, "delete", ok) EXCEPT !.pc = "afterDel"]]
  /\ UNCHANGED <<calc, r2Config, bucketName, users, meta, ledger, now, started>>

\* a handler that leaves the metadata row in place
DeleteMetaRowKept(m, k) == m

\* DELETE FROM video_metadata WHERE video_key = ?
DeleteMetaRow(m, k) == Without(m, k)

\* the continuation after the await: the metadata row is deleted when the
\* DeleteObject did not throw
DeleteFinish(i, metaFails) ==
  /\ reqs[i].pc = "afterDel"
  /\ reqs[i].op = "delete"
  /\ LET r == reqs[i]
         r1 == IF LastOk(r) THEN Called(r, "deleteMeta", ~metaFails) ELSE r
     IN /\ meta' = IF LastOk(r) /\ ~metaFails THEN DeleteMetaRow(meta, r.key) ELSE meta
        /\ reqs' = [reqs EXCEPT ![i] =
             IF LastOk(r) /\ ~metaFails
               THEN Respond(r1, 200, <<>>)
               ELSE Respond(r1, 500, <<>>)]
  /\ UNCHANGED <<calc, r2Config, bucketName, objects, users, ledger, now, started>>

(***************************************************************************)
(* PATCH /api/videos/*                                                     *)
(***************************************************************************)
\* !newName: a missing field and the empty string are both falsy
Falsy(n) == ~n.defined \/ n.str = <<>>

\* a validation that does not look at the key
InvalidRenameNameOnly(oldKey, n) == Falsy(n)

\* a validation that does not look at the new name
InvalidRenameKeyOnly(oldKey, n) == InvalidKey(oldKey)

\* !oldKey || !oldKey.startsWith("videos/") || !newName
InvalidRename(oldKey, n) == InvalidKey(oldKey) \/ Falsy(n)

\* a new key that gets the extension appended in every case
RenameKeyAlwaysAppends(oldKey, newName) ==
  VideosPrefix \o Sanitize(newName) \o Extname(oldKey)

\* `videos/${sanitizedNewName}${sanitizedNewName.endsWith(extension) ? '' : extension}`
RenameKey(oldKey, newName) ==
  LET extension == Extname(oldKey)
      sanitizedNewName == Sanitize(newName)
  IN VideosPrefix \o sanitizedNewName \o
       (IF EndsWith(sanitizedNewName, extension) THEN <<>> ELSE extension)

\* a handler without the same-key return
SameKeyNever(oldKey, newKey) == FALSE

\* oldKey === newKey
SameKey(oldKey, newKey) == oldKey = newKey

RenameStart(i, oldKey, n) ==
  /\ Arrive(i)
  /\ started' = started + 1
  /\ LET r == [Arrived("rename") EXCEPT !.key = oldKey, !.newName = n]
         newKey == RenameKey(oldKey, n.str)
     IN reqs' = [reqs EXCEPT ![i] =
          IF ~Configured THEN Respond(r, 500, <<>>)
          ELSE IF InvalidRename(oldKey, n) THEN Respond(r, 400, <<>>)
          ELSE IF SameKey(oldKey, newKey)
            THEN Respond([r EXCEPT !.newKey = newKey], 200, oldKey)
          ELSE [r EXCEPT !.pc = "copy", !.newKey = newKey]]
  /\ UNCHANGED <<calc, r2Config, bucketName, objects, users, meta, ledger, now>>

\* the bucket serves the CopyObject: it fails when the source key is absent,
\* and the call can fail otherwise
S3Copy(i, ok) ==
  /\ reqs[i].pc = "copy"
  /\ LET r == reqs[i]
         done == ok /\ r.key \in DOMAIN objects
     IN /\ objects' = IF done THEN (r.newKey :> objects[r.key]) @@ objects ELSE objects
        /\ reqs' = [reqs EXCEPT ![i] = [Called(r, "copy", done) EXCEPT !.pc = "afterCopy"]]
  /\ UNCHANGED <<calc, r2Config, bucketName, users, meta, ledger, now, started>>

\* a handler that swallows the error of the copy
TriesDeleteAlways(copyOk) == TRUE

\* a handler that deletes the old key when the copy has failed
TriesDeleteOnFailure(copyOk) == ~copyOk

\* the DeleteObject of the old key is sent when the copy did not throw
TriesDelete(copyOk) == copyOk

\* after the first await: a failed copy ends the request in the catch block,
\* else the old key's DeleteObject is sent
RenameAfterCopy(i) ==
  /\ reqs[i].pc = "afterCopy"
  /\ LET r == reqs[i]
     IN reqs' = [reqs EXCEPT ![i] =
          IF TriesDelete(LastOk(r)) THEN [r EXCEPT !.pc = "del"]
          ELSE Respond(r, 500, <<>>)]
  /\ UNCHANGED <<calc, r2Config, bucketName, objects, users, meta, ledger, now, started>>

\* UPDATE video_metadata SET video_key = new WHERE video_key = old fails when it
\* would give two rows the same video_key (PRIMARY KEY)
MetaUpdateViolates(old, new) == old \in DOMAIN meta /\ new \in DOMAIN meta

\* an update that leaves the row on the old key
MoveRowStays(m, old, new) == m

MoveRow(m, old, new) ==
  IF old \in DOMAIN m THEN (new :> m[old]) @@ Without(m, old) ELSE m

\* a handler that swallows the error of the delete
TriesUpdateAlways(delOk) == TRUE

\* the metadata update is reached when the DeleteObject did not throw
TriesUpdate(delOk) == delOk

\* after the second await: the metadata update and the response
RenameFinish(i, metaFails) ==
  /\ reqs[i].pc = "afterDel"
  /\ reqs[i].op = "rename"
  /\ LET r == reqs[i]
         triesUpdate == TriesUpdate(LastOk(r))
         updOk == ~(metaFails \/ MetaUpdateViolates(r.key, r.newKey))
         r1 == IF triesUpdate THEN Called(r, "updateMeta", updOk) ELSE r
     IN /\ meta' = IF triesUpdate /\ updOk THEN MoveRow(meta, r.key, r.newKey) ELSE meta
        /\ reqs' = [reqs EXCEPT ![i] =
             IF triesUpdate /\ updOk
               THEN Respond(r1, 200, r.newKey)
               ELSE Respond(r1, 500, <<>>)]
  /\ UNCHANGED <<calc, r2Config, bucketName, objects, users, ledger, now, started>>

(***************************************************************************)
(* POST /api/users and DELETE /api/users/:id                               *)
(***************************************************************************)
\* uuidv4() gives an id no row has
UserCreate(i, id, name, dbFails) ==
  /\ Arrive(i)
  /\ started' = started + 1
  /\ id \notin DOMAIN users
  /\ LET r == [Arrived("userCreate") EXCEPT !.uploaderId = id, !.uploaderName = name]
         r1 == IF name # "" THEN Called(r, "insertUser", ~dbFails) ELSE r
     IN /\ users' = IF name # "" /\ ~dbFails THEN (id :> name) @@ users ELSE users
        /\ reqs' = [reqs EXCEPT ![i] =
             IF name = "" THEN Respond(r1, 400, <<>>)
             ELSE IF dbFails THEN Respond(r1, 500, <<>>)
             ELSE Respond(r1, 200, <<>>)]
  /\ UNCHANGED <<calc, r2Config, bucketName, objects, meta, ledger, now>>

\* DELETE FROM users fails while a video_metadata row references the id
\* (FOREIGN KEY)
UserDeleteViolates(id) == \E k \in DOMAIN meta : meta[k].uploader_id = id

UserDelete(i, id, dbFails) ==
  /\ Arrive(i)
  /\ started' = started + 1
  /\ LET r == [Arrived("userDelete") EXCEPT !.uploaderId = id]
         ok == ~(dbFails \/ UserDeleteViolates(id))
     IN /\ users' = IF ok THEN Without(users, id) ELSE users
        /\ reqs' = [reqs EXCEPT ![i] =
             Respond(Called(r, "deleteUser", ok), IF ok THEN 200 ELSE 500, <<>>)]
  /\ UNCHANGED <<calc, r2Config, bucketName, objects, meta, ledger, now>>

(***************************************************************************)
(* GET /api/videos: the handler awaits the ListObjectsV2 and then reads    *)
(* video_metadata, one SELECT for each video key of the answer.            *)
(***************************************************************************)
\* the handler up to the await: only the bucket name is checked
ListStart(i) ==
  /\ Arrive(i)
  /\ started' = started + 1
  /\ reqs' = [reqs EXCEPT ![i] =
       IF ~bucketName THEN Respond(Arrived("list"), 500, <<>>)
       ELSE [Arrived("list") EXCEPT !.pc = "list"]]
  /\ UNCHANGED <<calc, r2Config, bucketName, objects, users, meta, ledger, now>>

\* the bucket answers the ListObjectsV2 with its objects, or the call fails
S3List(i, ok) ==
  /\ reqs[i].pc = "list"
  /\ reqs' = [reqs EXCEPT ![i] =
       [Called(@, "list", ok) EXCEPT !.pc = "afterList",
                                     !.listed = IF ok THEN objects ELSE EmptyFn]]
  /\ UNCHANGED <<calc, r2Config, bucketName, objects, users, meta, ledger, now, started>>

\* the continuation after the await: the keys with a video extension, each
\* with the uploader of the metadata table as it is now; a SELECT that throws
\* (selectFails, when there is a key to look up) is answered 500
ListFinish(i, selectFails) ==
  /\ reqs[i].pc = "afterList"
  /\ LET r == reqs[i]
     IN /\ selectFails => LastOk(r) /\ DOMAIN Listing(r.listed, meta) # {}
        /\ reqs' = [reqs EXCEPT ![i] =
             IF ~LastOk(r) THEN Respond(r, 500, <<>>)
             ELSE IF selectFails THEN Respond([r EXCEPT !.readFailed = TRUE], 500, <<>>)
             ELSE Respond([r EXCEPT !.respList = Listing(r.listed, meta)], 200, <<>>)]
  /\ UNCHANGED <<calc, r2Config, bucketName, objects, users, meta, ledger, now, started>>

(***************************************************************************)
(* GET /api/storage-usage and GET /api/storage-history: the handlers read  *)
(* upload_history and write nothing.                                       *)
(***************************************************************************)
StorageUsageResponse == [used |-> totalUsage, limit |-> limit]

StorageUsage == UNCHANGED vars

\* LIMIT 12
historyLimit == 12

\* GROUP BY month ORDER BY month DESC LIMIT 12: the totals of the latest
\* historyLimit months that have a row
HistoryOf(b) ==
  LET months == {r.month : r \in DOMAIN b}
      kept == {m \in months : Cardinality({n \in months : n > m}) < historyLimit}
  IN [m \in kept |-> MonthUsage(b, m)]

StorageHistoryResponse == HistoryOf(ledger)

StorageHistory == UNCHANGED vars

(***************************************************************************)
(* The clock.                                                              *)
(***************************************************************************)
Tick ==
  /\ now < MaxNow
  /\ now' = now + 1
  /\ UNCHANGED <<calc, r2Config, bucketName, objects, users, meta, ledger, reqs, started>>

(***************************************************************************)
(* The string functions of the handlers, applied to one input each: the    *)
(* sanitizing replace(), the key of an upload and the key of a rename.     *)
(***************************************************************************)
\* the strings of length at most n over the characters cs
Strings(cs, n) == UNION {[1..k -> cs] : k \in 0..n}

\* characters of file names and new names: a lower-case letter, an upper-case
\* letter, a digit, the dot, the hyphen, the underscore and two characters
\* outside the class
NameChars == {"a", "Z", "4", ".", "-", "_", "!"}

\* characters of the new names and of the old keys of renames
RenameChars == {"a", ".", "!"}

OldKeyChars == {"a", ".", "!", "/"}

\* the example rename of the service description
ExampleOldKey ==
  VideosPrefix \o <<"1","6","9","0","0","0","0","0","0","0","-","c","l","i","p",
                    ".","m","p","4">>

ExampleNewName == <<"M","y"," ","C","l","i","p","!","!">>

NoCalc == [fn |-> "none", pc |-> "out", name |-> <<>>, oldKey |-> <<>>, t |-> 0,
           out |-> <<>>]

SanitizeInputs ==
  {[NoCalc EXCEPT !.fn = "sanitize", !.pc = "in", !.name = s] :
     s \in Strings(NameChars, MaxLen) \cup {ExampleNewName}}

UploadInputs ==
  {[NoCalc EXCEPT !.fn = "upload", !.pc = "in", !.name = s, !.t = t] :
     s \in Strings(NameChars, MaxLen), t \in 0..MaxNow}

RenameInputs ==
  {[NoCalc EXCEPT !.fn = "rename", !.pc = "in", !.name = s, !.oldKey = k] :
     s \in Strings(RenameChars, MaxLen),
     k \in {VideosPrefix \o x : x \in Strings(OldKeyChars, MaxLen)}}
  \cup {[NoCalc EXCEPT !.fn = "rename", !.pc = "in",
                       !.name = ExampleNewName, !.oldKey = ExampleOldKey]}

Returned(v) == [calc EXCEPT !.pc = "out", !.out = v]

\* file.originalname.replace(/[^a-zA-Z0-9.-]/g, "_")
ApplySanitize ==
  /\ calc.fn = "sanitize" /\ calc.pc = "in"
  /\ calc' = Returned(Sanitize(calc.name))
  /\ UNCHANGED <<r2Config, bucketName, objects, users, meta, ledger, now, reqs, started>>

\* the key an upload of the file name calc.name at clock value calc.t writes
ApplyUploadKey ==
  /\ calc.fn = "upload" /\ calc.pc = "in"
  /\ calc' = Returned(UploadKey(calc.t, calc.name))
  /\ UNCHANGED <<r2Config, bucketName, objects, users, meta, ledger, now, reqs, started>>

\* the key a rename of calc.oldKey to calc.name writes when the two pass the
\* validation
ApplyRenameKey ==
  /\ calc.fn = "rename" /\ calc.pc = "in"
  /\ ~InvalidRename(calc.oldKey, [defined |-> TRUE, str |-> calc.name])
  /\ calc' = Returned(RenameKey(calc.oldKey, calc.name))
  /\ UNCHANGED <<r2Config, bucketName, objects, users, meta, ledger, now, reqs, started>>

(***************************************************************************)
(* Specifications.                                                         *)
(***************************************************************************)
\* an earlier upload of a.mp4 by user u1 at clock value 0: its key, and the
\* bucket and the metadata table after it
FirstKey == UploadKey(0, <<"a",".","m","p","4">>)

FirstObjects == (FirstKey :> "c0")

FirstMeta == (FirstKey :> [uploader_id |-> "u1", uploader_name |-> "Alice"])

\* the ledger after n uploads of full size in the month of clock value t
LedgerOf(n, t) ==
  [r \in {[size |-> fileSizeLimit, month |-> MonthOf(t)]} |-> n]

\* the server starts on an empty bucket and empty tables, or after the upload
\* of FirstKey, alone or as one of FullUploads uploads of this month
Init ==
  /\ r2Config \in BOOLEAN
  /\ bucketName \in BOOLEAN
  /\ bucketName => r2Config
  /\ users = ("u1" :> "Alice")
  /\ now = 1
  /\ \/ objects = EmptyFn /\ meta = EmptyFn /\ ledger = EmptyBag
     \/ /\ objects = FirstObjects
        /\ meta = FirstMeta
        /\ ledger \in {LedgerOf(1, 0), LedgerOf(FullUploads, 0)}
  /\ reqs = [i \in Slots |-> Idle]
  /\ started = 0
  /\ calc = NoCalc

\* the keys a client can name: those of the bucket and of the table, the key of
\* the earlier upload (also after its deletion), and strays
RequestKeys == DOMAIN objects \cup DOMAIN meta \cup {FirstKey} \cup StrayKeys

\* the steps of the requests that use the slots S, renames taking their new
\* name from N
Step(S, N) ==
  \/ \E i \in S, f \in Files \cup {NoFile}, id \in Identities,
          uf \in BOOLEAN, dt \in {0, 1} : UploadStart(i, f, id, uf, dt)
  \/ \E i \in S, ok \in BOOLEAN : S3Put(i, ok)
  \/ \E i \in S, mf \in BOOLEAN, hf \in BOOLEAN : UploadFinish(i, mf, hf)
  \/ \E i \in S, k \in RequestKeys : DeleteStart(i, k)
  \/ \E i \in S, ok \in BOOLEAN : S3Delete(i, ok)
  \/ \E i \in S, mf \in BOOLEAN : DeleteFinish(i, mf)
  \/ \E i \in S, k \in RequestKeys, n \in N : RenameStart(i, k, n)
  \/ \E i \in S, ok \in BOOLEAN : S3Copy(i, ok)
  \/ \E i \in S : RenameAfterCopy(i)
  \/ \E i \in S, mf \in BOOLEAN : RenameFinish(i, mf)
  \/ \E i \in S, id \in UserIds, name \in UserNames, df \in BOOLEAN :
       UserCreate(i, id, name, df)
  \/ \E i \in S, id \in UserIds, df \in BOOLEAN : UserDelete(i, id, df)
  \/ \E i \in S : ListStart(i)
  \/ \E i \in S, ok \in BOOLEAN : S3List(i, ok)
  \/ \E i \in S, sf \in BOOLEAN : ListFinish(i, sf)
  \/ StorageUsage
  \/ StorageHistory
  \/ Tick

\* requests overlap: up to MaxSlots are in flight, their steps interleaved
Next == Step(Slots, OverlapNewNames)

Spec == Init /\ [][Next]_vars

\* requests one at a time: with one slot a request arrives only when the one
\* before it has been answered
NextSeq == Step({1}, NewNames)

SpecSeq == Init /\ [][NextSeq]_vars

\* the string functions alone: an input is drawn, the function is applied
InitPure ==
  /\ r2Config = TRUE
  /\ bucketName = TRUE
  /\ objects = EmptyFn
  /\ users = EmptyFn
  /\ meta = EmptyFn
  /\ ledger = EmptyBag
  /\ now = 0
  /\ reqs = [i \in Slots |-> Idle]
  /\ started = 0
  /\ calc \in SanitizeInputs \cup UploadInputs \cup RenameInputs

NextPure == ApplySanitize \/ ApplyUploadKey \/ ApplyRenameKey

SpecPure == InitPure /\ [][NextPure]_vars

(***************************************************************************)
(* Properties.  The contract of one request is stated on requests that run *)
(* one at a time (SpecSeq): a finished request keeps its record, with the  *)
(* stores as they were at its arrival, until the next request arrives.     *)
(***************************************************************************)
Done(i, op) == reqs[i].pc = "done" /\ reqs[i].op = op

\* req.file is set: a part was sent and multer accepted it
HasFile(r) == r.file.present /\ ~TooLarge(r.file)

\* no SELECT of the request has thrown, no command and no write has failed
NoCallFailed(r) == ~r.readFailed /\ \A n \in DOMAIN r.calls : r.calls[n].ok

CallIs(r, n, cmd, ok) ==
  n \in DOMAIN r.calls /\ r.calls[n].cmd = cmd /\ r.calls[n].ok = ok

StoresAsBefore(r) ==
  objects = r.pre.objects /\ meta = r.pre.meta /\ ledger = r.pre.ledger

\* C1 (as stated): an upload with a file, configured storage and no store
\* failure whose usage before plus size is at most the limit succeeds, and the
\* current month's usage afterwards is the usage before plus the size.
C1_Original ==
  \A i \in Slots :
    ( /\ Done(i, "upload") /\ Configured /\ HasFile(reqs[i]) /\ NoCallFailed(reqs[i])
      /\ reqs[i].totalUsage + reqs[i].file.size <= limit )
    => /\ reqs[i].status = 200
       /\ MonthUsage(ledger, reqs[i].doneMonth)
            = reqs[i].totalUsage + reqs[i].file.size

\* C1 (amended): the same, for an upload whose quota check and response fall
\* in the same calendar month.
C1_Theorem ==
  \A i \in Slots :
    ( /\ Done(i, "upload") /\ Configured /\ HasFile(reqs[i]) /\ NoCallFailed(reqs[i])
      /\ reqs[i].totalUsage + reqs[i].file.size <= limit
      /\ reqs[i].doneMonth = reqs[i].currentMonth )
    => /\ reqs[i].status = 200
       /\ MonthUsage(ledger, reqs[i].doneMonth)
            = reqs[i].totalUsage + reqs[i].file.size

\* an upload that fills the month exactly to the limit has succeeded
C1_Witness ==
  \E i \in Slots :
    /\ Done(i, "upload") /\ reqs[i].status = 200
    /\ reqs[i].doneMonth = reqs[i].currentMonth
    /\ reqs[i].totalUsage > 0
    /\ reqs[i].totalUsage + reqs[i].file.size = limit
    /\ MonthUsage(ledger, reqs[i].doneMonth) = limit

\* C2: an upload whose file, added to the usage of the month before the
\* request, is above the limit is refused, makes no store call (no object, no
\* metadata row, no ledger row) and leaves bucket, metadata and ledger as they
\* were; the answer is 400 when the handler reaches the quota check (storage
\* configured, req.file set, the usage query answered).
C2_Theorem ==
  \A i \in Slots :
    ( /\ Done(i, "upload") /\ reqs[i].file.present
      /\ reqs[i].totalUsage + reqs[i].file.size > limit )
    => /\ reqs[i].status # 200
       /\ reqs[i].calls = <<>>
       /\ StoresAsBefore(reqs[i])
       /\ (Configured /\ HasFile(reqs[i]) /\ ~reqs[i].readFailed)
            => reqs[i].status = 400

\* an upload one MiB over the limit has been rejected
C2_Witness ==
  \E i \in Slots :
    /\ Done(i, "upload") /\ Configured /\ HasFile(reqs[i])
    /\ reqs[i].totalUsage + reqs[i].file.size = limit + 1
    /\ reqs[i].status = 400

\* a rename that went past the same-key check
Moved(r) == r.newKey # <<>> /\ r.newKey # r.key

\* C3 (as stated): after a rename that reports success the bucket no longer
\* holds the old key, holds the new key, and the listing shows the new key with
\* the uploader name the old key showed before the rename.
C3_Original ==
  \A i \in Slots :
    (Done(i, "rename") /\ reqs[i].status = 200 /\ Moved(reqs[i]))
    => /\ reqs[i].key \notin DOMAIN objects
       /\ reqs[i].newKey \in DOMAIN objects
       /\ reqs[i].newKey \in DOMAIN Listing(objects, meta)
       /\ Listing(objects, meta)[reqs[i].newKey]
            = UploaderOf(reqs[i].pre.meta, reqs[i].key)

\* C4: a rename whose computed key equals the old key is answered 200 with the
\* old key, sends no copy and no delete, and leaves bucket and metadata (and the
\* ledger) as they were, however often it is repeated.
C4_Theorem ==
  \A i \in Slots :
    ( /\ Done(i, "rename") /\ Configured
      /\ ~InvalidRename(reqs[i].key, reqs[i].newName)
      /\ RenameKey(reqs[i].key, reqs[i].newName.str) = reqs[i].key )
    => /\ reqs[i].status = 200
       /\ reqs[i].respKey = reqs[i].key
       /\ reqs[i].calls = <<>>
       /\ StoresAsBefore(reqs[i])

\* a rename of an existing object to its own name has been answered
C4_Witness ==
  \E i \in Slots :
    /\ Done(i, "rename") /\ reqs[i].status = 200
    /\ reqs[i].key \in DOMAIN objects
    /\ reqs[i].newKey = reqs[i].key
    /\ reqs[i].respKey = reqs[i].key

\* C5: a rename of a key outside videos/ is answered 400 before any store
\* call and changes neither the bucket nor the metadata.
C5_Theorem ==
  \A i \in Slots :
    ( /\ Done(i, "rename") /\ Configured
      /\ ~StartsWith(reqs[i].key, VideosPrefix) )
    => /\ reqs[i].status = 400
       /\ reqs[i].calls = <<>>
       /\ StoresAsBefore(reqs[i])

\* a rename of a non-empty key outside videos/, with a usable new name, has
\* been rejected
C5_Witness ==
  \E i \in Slots :
    /\ Done(i, "rename") /\ Configured
    /\ reqs[i].key # <<>> /\ ~StartsWith(reqs[i].key, VideosPrefix)
    /\ ~Falsy(reqs[i].newName)
    /\ reqs[i].status = 400

\* C6: when the copy of a rename fails the request is answered 500, makes no
\* further call, and bucket and metadata are as they were before the request.
C6_Theorem ==
  \A i \in Slots :
    (Done(i, "rename") /\ CallIs(reqs[i], 1, "copy", FALSE))
    => /\ reqs[i].status = 500
       /\ Len(reqs[i].calls) = 1
       /\ StoresAsBefore(reqs[i])

\* the copy of an existing object has failed and the request has ended
C6_Witness ==
  \E i \in Slots :
    /\ Done(i, "rename") /\ CallIs(reqs[i], 1, "copy", FALSE)
    /\ reqs[i].key \in DOMAIN objects
    /\ reqs[i].key \in DOMAIN meta

\* C7: when the copy of a rename succeeds and the delete of the old key fails,
\* the content is under both keys, the metadata table is as before (a row of
\* the old key still has the old key), and the request is answered 500.
C7_Theorem ==
  \A i \in Slots :
    ( /\ Done(i, "rename")
      /\ CallIs(reqs[i], 1, "copy", TRUE) /\ CallIs(reqs[i], 2, "delete", FALSE) )
    => /\ reqs[i].key \in DOMAIN objects
       /\ reqs[i].newKey \in DOMAIN objects
       /\ objects[reqs[i].newKey] = objects[reqs[i].key]
       /\ meta = reqs[i].pre.meta
       /\ reqs[i].status = 500

\* a rename of an attributed video has ended after a failed delete
C7_Witness ==
  \E i \in Slots :
    /\ Done(i, "rename")
    /\ CallIs(reqs[i], 1, "copy", TRUE) /\ CallIs(reqs[i], 2, "delete", FALSE)
    /\ reqs[i].key \in DOMAIN meta
    /\ reqs[i].newKey \notin DOMAIN reqs[i].pre.objects

\* C8 (as stated): when copy and delete of a rename succeed and the metadata
\* update fails, the object is only under the new key, the metadata is as
\* before, the request is answered 500, and the listing shows the new key with
\* uploader "Unknown" and does not show the old key.
C8_Original ==
  \A i \in Slots :
    ( /\ Done(i, "rename")
      /\ CallIs(reqs[i], 1, "copy", TRUE) /\ CallIs(reqs[i], 2, "delete", TRUE)
      /\ CallIs(reqs[i], 3, "updateMeta", FALSE) )
    => /\ reqs[i].newKey \in DOMAIN objects
       /\ reqs[i].key \notin DOMAIN objects
       /\ meta = reqs[i].pre.meta
       /\ reqs[i].status = 500
       /\ reqs[i].newKey \in DOMAIN Listing(objects, meta)
       /\ Listing(objects, meta)[reqs[i].newKey] = "Unknown"
       /\ reqs[i].key \notin DOMAIN Listing(objects, meta)

\* C9: when the PutObject of an upload fails the request is answered 500 and
\* metadata and ledger are as they were before the request.
C9_Theorem ==
  \A i \in Slots :
    (Done(i, "upload") /\ CallIs(reqs[i], 1, "put", FALSE))
    => /\ reqs[i].status = 500
       /\ Len(reqs[i].calls) = 1
       /\ StoresAsBefore(reqs[i])

\* the put of an upload with uploader identity has failed
C9_Witness ==
  \E i \in Slots :
    /\ Done(i, "upload") /\ CallIs(reqs[i], 1, "put", FALSE)
    /\ reqs[i].uploaderId # "" /\ reqs[i].uploaderName # ""

\* C10 (as stated): an upload whose PutObject succeeded has added exactly one
\* ledger row, of the payload size, whether or not uploader identity was
\* supplied and whatever the outcome of the metadata insert (the ledger insert
\* itself not failing); a metadata row is added only with uploader identity.
C10_Original ==
  \A i \in Slots :
    ( /\ Done(i, "upload") /\ CallIs(reqs[i], 1, "put", TRUE)
      /\ \A n \in DOMAIN reqs[i].calls : ~CallIs(reqs[i], n, "insertHistory", FALSE) )
    => /\ ledger = reqs[i].pre.ledger
                     (+) SetToBag({[size |-> reqs[i].file.size,
                                    month |-> reqs[i].doneMonth]})
       /\ (meta # reqs[i].pre.meta
             => reqs[i].uploaderId # "" /\ reqs[i].uploaderName # "")

\* the ledger row of the earlier upload of FirstKey
FirstRow == [size |-> fileSizeLimit, month |-> MonthOf(0)]

\* C11 (as stated): a delete of the video FirstKey, uploaded earlier and
\* already removed from the bucket, is answered 200, also when the DeleteObject
\* call fails (the metadata delete, where reached, not failing).
C11_Original ==
  \A i \in Slots :
    ( /\ Done(i, "delete") /\ Configured
      /\ reqs[i].key = FirstKey
      /\ BagIn(FirstRow, reqs[i].pre.ledger)
      /\ reqs[i].key \notin DOMAIN reqs[i].pre.objects
      /\ \A n \in DOMAIN reqs[i].calls : ~CallIs(reqs[i], n, "deleteMeta", FALSE) )
    => reqs[i].status = 200

\* C12: a delete that is answered 200 has sent the DeleteObject and then the
\* metadata delete, both without failure, and leaves neither the object nor a
\* metadata row of the key; a delete of a key under videos/ none of whose calls
\* failed is answered 200, with or without a metadata row before it.
C12_Theorem ==
  \A i \in Slots :
    /\ (Done(i, "delete") /\ reqs[i].status = 200)
       => /\ StartsWith(reqs[i].key, VideosPrefix)
          /\ reqs[i].key \notin DOMAIN objects
          /\ reqs[i].key \notin DOMAIN meta
          /\ Len(reqs[i].calls) = 2
          /\ CallIs(reqs[i], 1, "delete", TRUE)
          /\ CallIs(reqs[i], 2, "deleteMeta", TRUE)
    /\ ( /\ Done(i, "delete") /\ Configured /\ ~InvalidKey(reqs[i].key)
         /\ NoCallFailed(reqs[i]) )
       => reqs[i].status = 200

\* the delete of a stored video with a metadata row has succeeded
C12_Witness ==
  \E i \in Slots :
    /\ Done(i, "delete") /\ reqs[i].status = 200
    /\ reqs[i].key \in DOMAIN reqs[i].pre.objects
    /\ reqs[i].key \in DOMAIN reqs[i].pre.meta

\* C13: a delete of a key that does not begin with videos/ is answered 400,
\* sends no call to the bucket or the tables, and leaves bucket, metadata and
\* ledger as they were.
C13_Theorem ==
  \A i \in Slots :
    ( /\ Done(i, "delete") /\ Configured
      /\ ~StartsWith(reqs[i].key, VideosPrefix) )
    => /\ reqs[i].status = 400
       /\ reqs[i].calls = <<>>
       /\ StoresAsBefore(reqs[i])

\* a delete of a non-empty key outside videos/ has been rejected while the
\* bucket holds a video
C13_Witness ==
  \E i \in Slots :
    /\ Done(i, "delete") /\ Configured
    /\ reqs[i].key # <<>> /\ ~StartsWith(reqs[i].key, VideosPrefix)
    /\ reqs[i].status = 400
    /\ objects # EmptyFn

\* a string function has been applied
Applied(fn) == calc.fn = fn /\ calc.pc = "out"

\* the characters a sanitized string can hold
KeyChars == AllowedChars \cup {"_"}

\* C14 (as stated): the key an upload writes, and the key a rename writes for
\* an old key and a new name that pass the validation (a rename to the old key
\* itself writes nothing), begins with videos/ and has only letters, digits,
\* dot, hyphen and underscore after the prefix.
C14_Original ==
  (Applied("upload") \/ (Applied("rename") /\ ~SameKey(calc.oldKey, calc.out)))
  => /\ StartsWith(calc.out, VideosPrefix)
     /\ \A n \in (Len(VideosPrefix) + 1)..Len(calc.out) : calc.out[n] \in KeyChars

\* C15: the sanitized string is defined for every input, has only letters,
\* digits, dot, hyphen and underscore, has the length of the input, and is
\* left as it is by a second sanitization.
C15_Theorem ==
  Applied("sanitize")
  => /\ Range(calc.out) \subseteq KeyChars
     /\ Len(calc.out) = Len(calc.name)
     /\ Sanitize(calc.out) = calc.out

\* a name with a space and two exclamation marks has been sanitized
C15_Witness ==
  /\ Applied("sanitize")
  /\ calc.name = ExampleNewName
  /\ calc.out = <<"M","y","_","C","l","i","p","_","_">>

\* C20: the key of a rename is videos/ and the sanitized new name, followed by
\* the old key's extension exactly when the sanitized name does not end with
\* it; videos/1690000000-clip.mp4 renamed to "My Clip!!" gives
\* videos/My_Clip__.mp4.
C20_Theorem ==
  Applied("rename")
  => LET stem == VideosPrefix \o Sanitize(calc.name)
         extension == Extname(calc.oldKey)
     IN /\ StartsWith(calc.out, stem)
        /\ EndsWith(calc.out, extension)
        /\ Len(calc.out) \in {Len(stem), Len(stem) + Len(extension)}
        /\ Len(calc.out) = Len(stem) <=> EndsWith(Sanitize(calc.name), extension)
        /\ (calc.oldKey = ExampleOldKey /\ calc.name = ExampleNewName)
             => calc.out = VideosPrefix \o <<"M","y","_","C","l","i","p","_","_",
                                             ".","m","p","4">>

\* the example rename has been computed
C20_Witness ==
  /\ Applied("rename")
  /\ calc.oldKey = ExampleOldKey /\ calc.name = ExampleNewName
  /\ calc.out = VideosPrefix \o <<"M","y","_","C","l","i","p","_","_",
                                  ".","m","p","4">>

\* C16 (as stated): from an empty ledger an upload of 3 GiB, with storage
\* configured and no store failure, succeeds and usage becomes 3 GiB (the
\* upload of 8 GiB that is to follow is refused).
C16_Original ==
  \A i \in Slots :
    ( /\ Done(i, "upload") /\ Configured /\ NoCallFailed(reqs[i])
      /\ reqs[i].file.present /\ reqs[i].file.size = 3 * 1024
      /\ reqs[i].pre.ledger = EmptyBag )
    => /\ reqs[i].status = 200
       /\ MonthUsage(ledger, reqs[i].doneMonth) = 3 * 1024

\* C16 (amended): from an empty ledger an upload of 3 GiB is refused, being
\* above the size limit of one upload, and usage stays 0.  From a usage of
\* 10 GiB less 40 MiB an upload of 40 MiB (no store failure, same month)
\* succeeds and usage becomes 10 GiB; an upload of 41 MiB that follows (its
\* usage query answered) is answered 400 and usage remains 10 GiB.
C16_Theorem ==
  \A i \in Slots :
    /\ ( /\ Done(i, "upload")
         /\ reqs[i].file.present /\ reqs[i].file.size = 3 * 1024
         /\ reqs[i].pre.ledger = EmptyBag )
       => /\ reqs[i].status # 200
          /\ StoresAsBefore(reqs[i])
          /\ MonthUsage(ledger, reqs[i].doneMonth) = 0
    /\ ( /\ Done(i, "upload") /\ Configured /\ HasFile(reqs[i]) /\ NoCallFailed(reqs[i])
         /\ reqs[i].doneMonth = reqs[i].currentMonth
         /\ reqs[i].totalUsage = limit - Remainder
         /\ reqs[i].file.size = Remainder )
       => /\ reqs[i].status = 200
          /\ MonthUsage(ledger, reqs[i].doneMonth) = limit
    /\ ( /\ Done(i, "upload") /\ Configured /\ HasFile(reqs[i])
         /\ ~reqs[i].readFailed
         /\ reqs[i].totalUsage = limit
         /\ reqs[i].file.size = Remainder + 1 )
       => /\ reqs[i].status = 400
          /\ StoresAsBefore(reqs[i])
          /\ MonthUsage(ledger, reqs[i].currentMonth) = limit

\* after an upload of 40 MiB has filled the month to the limit, an upload of
\* 41 MiB has been answered 400
C16_Witness ==
  \E i \in Slots :
    /\ Done(i, "upload") /\ reqs[i].status = 400
    /\ reqs[i].file.size = Remainder + 1
    /\ reqs[i].totalUsage = limit
    /\ BagIn([size |-> Remainder, month |-> reqs[i].currentMonth], reqs[i].pre.ledger)
    /\ MonthUsage(ledger, reqs[i].currentMonth) = limit

\* C17 (as stated): an upload whose file is larger than the 100 MiB limit is
\* answered 400, makes no store call and leaves bucket, metadata and ledger as
\* they were.
C17_Original ==
  \A i \in Slots :
    (Done(i, "upload") /\ TooLarge(reqs[i].file))
    => /\ reqs[i].status = 400
       /\ reqs[i].calls = <<>>
       /\ StoresAsBefore(reqs[i])

\* C18 (as stated): the deletion of a user that video_metadata rows reference
\* is answered 200 and leaves every video_metadata row as it was.
C18_Original ==
  \A i \in Slots :
    ( /\ Done(i, "userDelete")
      /\ \E k \in DOMAIN reqs[i].pre.meta :
           reqs[i].pre.meta[k].uploader_id = reqs[i].uploaderId )
    => /\ reqs[i].status = 200
       /\ meta = reqs[i].pre.meta

\* C19: no step of any handler (upload, rename, video delete, user create,
\* user delete, usage queries) takes a row out of upload_history or changes
\* one, and the usage of the current month that GET /api/storage-usage reports
\* does not go down while the month stays the same.
C19_Theorem ==
  [][ /\ \A row \in DOMAIN ledger : CopiesIn(row, ledger') >= CopiesIn(row, ledger)
      /\ MonthOf(now') = MonthOf(now)
           => StorageUsageResponse.used' >= StorageUsageResponse.used ]_vars

\* a stored video has been deleted and the ledger still holds the row of its
\* upload, with everything else it held
C19_Witness ==
  \E i \in Slots :
    /\ Done(i, "delete") /\ reqs[i].status = 200
    /\ reqs[i].key = FirstKey
    /\ reqs[i].key \in DOMAIN reqs[i].pre.objects
    /\ BagIn(FirstRow, ledger)
    /\ ledger = reqs[i].pre.ledger

\* the commands of the calls a request has made, in order
Cmds(r) == [n \in DOMAIN r.calls |-> r.calls[n].cmd]

\* s is the beginning of t
IsPrefix(s, t) == Len(s) <= Len(t) /\ SubSeq(t, 1, Len(s)) = s

\* every call but the last has succeeded
OnlyLastFailed(r) == \A n \in DOMAIN r.calls : n < Len(r.calls) => r.calls[n].ok

\* C22: at every point of a rename request the calls made so far are the
\* beginning of copy, delete of the old key, metadata update, each sent only
\* when the one before it succeeded; the request is answered 200 only after a
\* successful metadata update, or without any call when the new key equals
\* the old key.
C22_Theorem ==
  \A i \in Slots :
    reqs[i].op = "rename"
    => /\ IsPrefix(Cmds(reqs[i]), <<"copy", "delete", "updateMeta">>)
       /\ OnlyLastFailed(reqs[i])
       /\ reqs[i].status = 200
            => \/ /\ Len(reqs[i].calls) = 3
                  /\ NoCallFailed(reqs[i])
               \/ /\ reqs[i].calls = <<>>
                  /\ reqs[i].newKey = reqs[i].key

\* a rename of an attributed video has gone through copy, delete and metadata
\* update and has been answered 200
C22_Witness ==
  \E i \in Slots :
    /\ Done(i, "rename") /\ reqs[i].status = 200
    /\ Cmds(reqs[i]) = <<"copy", "delete", "updateMeta">>
    /\ reqs[i].key \in DOMAIN reqs[i].pre.meta
    /\ reqs[i].newKey \in DOMAIN meta

\* C23: within an upload, delete or rename request no store call is sent
\* twice, and after a call has failed the request sends no further call.
C23_Theorem ==
  \A i \in Slots :
    reqs[i].op \in {"upload", "delete", "rename"}
    => /\ \A m, n \in DOMAIN reqs[i].calls :
            reqs[i].calls[m].cmd = reqs[i].calls[n].cmd => m = n
       /\ OnlyLastFailed(reqs[i])
       /\ ~NoCallFailed(reqs[i]) /\ reqs[i].pc = "done" => reqs[i].status = 500

\* an upload with uploader identity has ended after its metadata insert
\* failed: the object is stored and no ledger row was written
C23_Witness ==
  \E i \in Slots :
    /\ Done(i, "upload")
    /\ Cmds(reqs[i]) = <<"put", "insertMeta">>
    /\ CallIs(reqs[i], 2, "insertMeta", FALSE)
    /\ reqs[i].key \in DOMAIN objects
    /\ ledger = reqs[i].pre.ledger

\* C25: a rename whose new name is missing or empty is answered 400 before
\* any store call and leaves bucket, metadata and ledger as they were.
C25_Theorem ==
  \A i \in Slots :
    (Done(i, "rename") /\ Configured /\ Falsy(reqs[i].newName))
    => /\ reqs[i].status = 400
       /\ reqs[i].calls = <<>>
       /\ StoresAsBefore(reqs[i])

\* a rename of a stored video to the empty name has been rejected
C25_Witness ==
  \E i \in Slots :
    /\ Done(i, "rename") /\ Configured
    /\ reqs[i].key \in DOMAIN objects
    /\ reqs[i].newName.defined /\ reqs[i].newName.str = <<>>
    /\ reqs[i].status = 400

\* every video_metadata row's key names an object of the bucket
RowsNameObjects(m, objs) == DOMAIN m \subseteq DOMAIN objs

\* C26: with requests one at a time, an upload, rename or delete none of whose
\* store calls failed, arriving when every metadata row's key names an object,
\* leaves every metadata row's key naming an object.
C26_Theorem ==
  \A i \in Slots :
    ( /\ reqs[i].pc = "done" /\ reqs[i].op \in {"upload", "rename", "delete"}
      /\ NoCallFailed(reqs[i])
      /\ RowsNameObjects(reqs[i].pre.meta, reqs[i].pre.objects) )
    => RowsNameObjects(meta, objects)

\* a rename of an attributed video has succeeded: its row is on the new key,
\* which names the moved object
C26_Witness ==
  \E i \in Slots :
    /\ Done(i, "rename") /\ reqs[i].status = 200 /\ Moved(reqs[i])
    /\ reqs[i].key \in DOMAIN reqs[i].pre.meta
    /\ reqs[i].key \notin DOMAIN objects
    /\ reqs[i].newKey \in DOMAIN meta
    /\ reqs[i].newKey \in DOMAIN objects

\* C27 (as stated): after a rename every object other than the renamed one is
\* still in the bucket with the content and the uploader attribution it had
\* before the rename.
C27_Original ==
  \A i \in Slots :
    (Done(i, "rename") /\ Moved(reqs[i]))
    => \A k \in DOMAIN reqs[i].pre.objects \ {reqs[i].key} :
         /\ k \in DOMAIN objects
         /\ objects[k] = reqs[i].pre.objects[k]
         /\ UploaderOf(meta, k) = UploaderOf(reqs[i].pre.meta, k)

\* C28: with requests one at a time the usage of the current month, as
\* GET /api/storage-usage computes it from the ledger, and the usage of every
\* month the ledger has a row of, is at most the limit in every state.
C28_Theorem ==
  /\ StorageUsageResponse.used <= limit
  /\ \A r \in DOMAIN ledger : MonthUsage(ledger, r.month) <= limit
  /\ \A m \in DOMAIN StorageHistoryResponse : StorageHistoryResponse[m] <= limit

\* an upload has filled the current month exactly to the limit
C28_Witness ==
  /\ StorageUsageResponse.used = limit
  /\ \E i \in Slots :
       /\ Done(i, "upload") /\ reqs[i].status = 200
       /\ reqs[i].doneMonth = MonthOf(now)
       /\ reqs[i].totalUsage < limit

(***************************************************************************)
(* Properties of requests that overlap (Spec).  A new request takes the    *)
(* first free slot, so two finished records in two slots are those of two  *)
(* requests of which one arrived while the other was in flight.            *)
(***************************************************************************)
\* C21: the outcome of an upload's quota check depends only on the usage the
\* handler read at the check: an upload with configured storage, a file and no
\* failed store call succeeds exactly when that usage plus its size is within
\* the limit, whatever other uploads have written to the ledger since.  (The
\* interleaving the claim names, two uploads that each fit alone, both
\* succeeding with the month's usage above the limit, is C21_Witness.)
C21_Theorem ==
  \A i \in Slots :
    ( /\ Done(i, "upload") /\ Configured /\ HasFile(reqs[i])
      /\ NoCallFailed(reqs[i]) )
    => (reqs[i].status = 200
          <=> reqs[i].totalUsage + reqs[i].file.size <= limit)

\* two overlapping uploads, each within the limit by the usage it read, have
\* both succeeded in the same month and the usage of that month is above the
\* limit
C21_Witness ==
  \E i, j \in Slots :
    /\ i # j
    /\ Done(i, "upload") /\ reqs[i].status = 200
    /\ Done(j, "upload") /\ reqs[j].status = 200
    /\ reqs[i].totalUsage + reqs[i].file.size <= limit
    /\ reqs[j].totalUsage + reqs[j].file.size <= limit
    /\ reqs[i].totalUsage + reqs[i].file.size + reqs[j].file.size > limit
    /\ reqs[i].doneMonth = reqs[j].doneMonth
    /\ MonthUsage(ledger, reqs[i].doneMonth) > limit

\* C24 (as stated): two uploads that both report success have different keys,
\* and an upload does not write to a key that held an object when it arrived;
\* also for two uploads of the same file name at the same clock value.
C24_Original ==
  \A i, j \in Slots :
    /\ ( /\ i # j
         /\ Done(i, "upload") /\ reqs[i].status = 200
         /\ Done(j, "upload") /\ reqs[j].status = 200 )
       => reqs[i].key # reqs[j].key
    /\ (Done(i, "upload") /\ CallIs(reqs[i], 1, "put", TRUE))
       => reqs[i].key \notin DOMAIN reqs[i].pre.objects

\* C29 (as stated): when a rename of k to k' and an overlapping delete of k or
\* of k' have both completed without a failed store call, every metadata row's
\* key names an object of the bucket, and the object the delete found under
\* its key is not in the listing.
C29_Original ==
  \A i, j \in Slots :
    ( /\ i # j
      /\ Done(i, "rename") /\ Moved(reqs[i]) /\ reqs[i].status = 200
      /\ NoCallFailed(reqs[i])
      /\ Done(j, "delete") /\ reqs[j].status = 200 /\ NoCallFailed(reqs[j])
      /\ reqs[j].key \in {reqs[i].key, reqs[i].newKey} )
    => /\ RowsNameObjects(meta, objects)
       /\ ( /\ reqs[j].key \in DOMAIN Listing(objects, meta)
            /\ reqs[j].key \in DOMAIN reqs[j].pre.objects )
          => objects[reqs[j].key] # reqs[j].pre.objects[reqs[j].key]

\* C30 (as stated): when two overlapping renames of the same old key to two
\* different new keys have both completed without a failed store call, at most
\* one of them has reported success and the content is under exactly one key,
\* with the metadata row of the old key, if it had one, on that key.
C30_Original ==
  \A i, j \in Slots :
    ( /\ i # j
      /\ Done(i, "rename") /\ Moved(reqs[i]) /\ NoCallFailed(reqs[i])
      /\ Done(j, "rename") /\ Moved(reqs[j]) /\ NoCallFailed(reqs[j])
      /\ reqs[i].key = reqs[j].key
      /\ reqs[i].newKey # reqs[j].newKey
      /\ reqs[i].key \in DOMAIN reqs[i].pre.objects )
    => LET content == reqs[i].pre.objects[reqs[i].key]
           holders == {k \in DOMAIN objects : objects[k] = content}
       IN /\ ~(reqs[i].status = 200 /\ reqs[j].status = 200)
          /\ Cardinality(holders) = 1
          /\ reqs[i].key \in DOMAIN reqs[i].pre.meta => DOMAIN meta = holders

====
